---- MODULE Spec2Model ----
(***************************************************************************)
(* The per-connection protocol engine, the periodic difficulty tick and    *)
(* the outbound writer of the sample pool server (src/src/sample_pool.rs). *)
(*                                                                         *)
(* One connection is modelled: connection engines share nothing but the    *)
(* global `users` list, and every connection's closure starts from its own *)
(* copy of max_client_id = 0.  The three tasks (connection engine, tick,   *)
(* writer) run on a multi-threaded runtime, so a handler is a sequence of  *)
(* steps, one per access to state another task can touch (the atomics of a *)
(* PerUserClientRef, the outbound channel, the users mutex); what is local *)
(* to the connection happens in the step that receives the message.        *)
(* Wall-clock timestamps are left out of the messages.                     *)
(***************************************************************************)
EXTENDS Integers, Sequences, FiniteSets, TLC

\* ------------------------------------------------------------ constants
MIN_TARGET_LEADING_0S == 47
WEAK_BLOCK_RATIO_0S == 8
MAX_USER_SHARES_PER_30_SEC == 30
MIN_USER_SHARES_PER_30_SEC == 1
MAX_TARGET_LEADING_0S == 71 - WEAK_BLOCK_RATIO_0S
\* mpsc::channel(5)
CHANNEL_BUFFER == 5

\* ------------------------------------------------------------ bounds
\* UserAuth is accepted while max_client_id < MaxClients
MaxClients == 2
\* the tick enqueues while fewer than MaxQueue messages wait for the writer
MaxQueue == 7
\* Share and WeakBlock are received while every accepted_shares < MaxShares
MaxShares == 32

\* ------------------------------------------------------------ configuration
\* --server_id
server_id == <<115, 49>>
\* --payout_address, as a script
payout_script == "payout_script"

Min(a, b) == IF a <= b THEN a ELSE b
Max(a, b) == IF a >= b THEN a ELSE b
Restrict(f, S) == [x \in S |-> f[x]]
Range(f) == {f[x] : x \in DOMAIN f}
Put(f, k, v) == [x \in DOMAIN f \cup {k} |-> IF x = k THEN v ELSE f[x]]
Remove(f, k) == Restrict(f, DOMAIN f \ {k})
RemoveAt(s, i) == SubSeq(s, 1, i - 1) \o SubSeq(s, i + 1, Len(s))

\* ------------------------------------------------------------ utils
\* The largest 32-byte big-endian value with `zeros` leading zero bits.
leading_0s_to_target(zeros) ==
    [i \in 1..32 |-> IF i <= zeros \div 8 THEN 0
                     ELSE IF i = (zeros \div 8) + 1 THEN 2^(8 - (zeros % 8)) - 1
                     ELSE 255]

\* The smallest 32-byte value with `zeros` leading zero bits (one bit set).
one_bit_target(zeros) ==
    [i \in 1..32 |-> IF i = (zeros \div 8) + 1 THEN 2^(7 - (zeros % 8)) ELSE 0]

\* Leading zero bits of one non-zero byte.
byte_leading_zeros(b) == CHOOSE k \in 0..7 : 2^(7 - k) <= b /\ b < 2^(8 - k)

\* Leading zero bits of a 32-byte big-endian value, as a u8.
count_leading_zeros(t) ==
    LET nz == {i \in 1..32 : t[i] # 0} IN
    IF nz = {} THEN 255
    ELSE LET i == CHOOSE j \in nz : \A k \in nz : j <= k
         IN (i - 1) * 8 + byte_leading_zeros(t[i])

RECURSIVE le64_to_array_n(_, _)
le64_to_array_n(v, n) ==
    IF n = 0 THEN <<>> ELSE <<v % 256>> \o le64_to_array_n(v \div 256, n - 1)
\* u64 -> 8 little-endian bytes
le64_to_array(v) == le64_to_array_n(v, 8)

RECURSIVE slice_to_le64(_)
\* 8 little-endian bytes -> u64
slice_to_le64(s) == IF s = <<>> THEN 0 ELSE Head(s) + 256 * slice_to_le64(Tail(s))

\* ------------------------------------------------------------ state
VARIABLES
    client_version,      \* 0 = None, else the negotiated version
    connection_clients,  \* user_id -> Arc<PerUserClientRef> (the object's key in obj)
    client_ids,          \* client_id -> user_id
    max_client_id,       \* the connection's counter
    last_weak_block,     \* <<>> = None, else <<txn>>
    connState,           \* "open"; "failed": the handler returned Err; "closed": task dropped
    todo,                \* what is left of the handler of the message being processed
    obj,                 \* the live PerUserClientRef objects (strong count > 0)
    users,               \* the global Vec<Weak<PerUserClientRef>>
    numMessages,         \* messages waiting in the outbound channel
    parkedQ,             \* the channel's queue of parked senders
    rxOpen,              \* the channel's receiver (the writer task) is alive
    tickPc, tickIdx, tickLoc,  \* the tick task: position, index in users, locals
    lastIn,              \* history: the inbound message last received
    emitted,             \* history: what its handler handed to the channel, in order
    minted,              \* history: the client ids minted, in registration order
    removed,             \* history: the user ids removed by DropUser
    judged,              \* history: the cur_target the handler loaded (0 = none)
    lastSD               \* history: per user id, the last ShareDifficulty queued for it

connVars == <<client_version, connection_clients, client_ids, max_client_id, last_weak_block>>
chanVars == <<numMessages, parkedQ>>
tickVars == <<tickPc, tickIdx, tickLoc>>
histVars == <<lastIn, emitted, minted, removed, judged, lastSD>>
vars == <<client_version, connection_clients, client_ids, max_client_id, last_weak_block,
          connState, todo, obj, users, numMessages, parkedQ, rxOpen,
          tickPc, tickIdx, tickLoc, lastIn, emitted, minted, removed, judged, lastSD>>

\* The tick's locals for the user it is visiting: the swapped count, the loaded
\* and the new target, the message it built and whether start_send queued it.
NoLoc == [shares |-> 0, cur |-> 0, new |-> 0, msg |-> [type |-> "none"], sent |-> FALSE]
NoMsg == [msg |-> [type |-> "none"], allow |-> FALSE]

Init ==
    /\ client_version = 0
    /\ connection_clients = <<>>
    /\ client_ids = <<>>
    /\ max_client_id = 0
    /\ last_weak_block = <<>>
    /\ connState = "open"
    /\ todo = <<>>
    /\ obj = <<>>
    /\ users = <<>>
    /\ numMessages = 0
    /\ parkedQ = <<>>
    /\ rxOpen = TRUE
    /\ tickPc = "idle"
    /\ tickIdx = 0
    /\ tickLoc = NoLoc
    /\ lastIn = NoMsg
    /\ emitted = <<>>
    /\ minted = <<>>
    /\ removed = {}
    /\ judged = 0
    /\ lastSD = <<>>

\* ------------------------------------------------------------ references
\* The object the tick holds a strong reference to (weak_user.upgrade()).
TickHeld == IF tickPc \in {"load", "send", "store"} THEN {users[tickIdx]} ELSE {}

\* The objects the connection owns through connection_clients.
ConnHeld == IF connState # "closed" THEN Range(connection_clients) ELSE {}

\* ------------------------------------------------------------ messages
ProtocolVersionMsg ==
    [type |-> "ProtocolVersion", selected_version |-> 1, flags |-> 0,
     auth_key |-> "server_pubkey"]

\* sign_message!(msg, msg_type): the signature names the key and the type byte
sign_message(msg_type) == [key |-> "auth_key", msg_type |-> msg_type]

PayoutInfoMsg ==
    [type |-> "PayoutInfo", signature |-> sign_message(13),
     remaining_payout |-> payout_script, appended_outputs |-> <<>>]

\* Fault variant: a sketch is rejected without WeakBlockStateReset.
RejectSketch_NoReset(msg, reason) == <<[op |-> "send",
                                        msg |-> [type |-> "ShareRejected",
                                                 user_tag_1 |-> msg.user_tag_1,
                                                 reason |-> reason]]>>

\* Fault variant: the postfix is the client id alone.
AcceptUserAuthMsg_NoServerId(user_id, client_id) ==
    [type |-> "AcceptUserAuth", signature |-> sign_message(15), user_id |-> user_id,
     coinbase_postfix |-> le64_to_array(client_id)]

AcceptUserAuthMsg(user_id, client_id) ==
    [type |-> "AcceptUserAuth", signature |-> sign_message(15), user_id |-> user_id,
     coinbase_postfix |-> server_id \o le64_to_array(client_id)]

RejectUserAuthMsg(user_id) == [type |-> "RejectUserAuth", user_id |-> user_id]

ShareDifficultyMsg(user_id, target) ==
    [type |-> "ShareDifficulty", user_id |-> user_id,
     share_target |-> leading_0s_to_target(target),
     weak_block_target |-> leading_0s_to_target(target + WEAK_BLOCK_RATIO_0S)]

ShareAcceptedMsg(tag) == [type |-> "ShareAccepted", user_tag_1 |-> tag]
ShareRejectedMsg(tag, reason) == [type |-> "ShareRejected", user_tag_1 |-> tag, reason |-> reason]
WeakBlockStateResetMsg == [type |-> "WeakBlockStateReset"]

SendOp(m) == [op |-> "send", msg |-> m]

\* ------------------------------------------------------------ connection drop
\* The handler returns Err(HandleError): rx.for_each resolves, and the
\* connection's locals are as the handler left them until the task is dropped.
DropConnection ==
    /\ connState' = "failed"
    /\ todo' = <<>>

\* The finished read task is dropped, and with its closure the Arcs of
\* connection_clients, the maps, the counter and the weak-block cache.
TaskDrop ==
    /\ connState = "failed"
    /\ connState' = "closed"
    /\ obj' = Restrict(obj, DOMAIN obj \cap TickHeld)
    /\ client_version' = 0
    /\ connection_clients' = <<>>
    /\ client_ids' = <<>>
    /\ max_client_id' = 0
    /\ last_weak_block' = <<>>
    /\ lastIn' = NoMsg
    /\ emitted' = <<>>
    /\ minted' = <<>>
    /\ removed' = {}
    /\ judged' = 0
    /\ lastSD' = <<>>
    /\ UNCHANGED <<todo, users, chanVars, rxOpen, tickVars>>

\* The handler is entered with the next inbound message.
Received(msg, allow) ==
    /\ connState = "open"
    /\ todo = <<>>
    /\ lastIn' = [msg |-> msg, allow |-> allow]
    /\ emitted' = <<>>
    /\ judged' = 0

\* ------------------------------------------------------------ handlers
\* Fault variants of the handlers' tests, used to show that the properties
\* below depend on them.
DuplicateSupport_Never == FALSE
VersionMismatch_MinOnly(msg) == msg.min_version > 1
VersionUnset_Never == FALSE
NoUsers_Never == FALSE
NoUsers_NeverAuthenticated == max_client_id = 0
AlreadyRegistered_Never(user_id) == FALSE
RemoveClientId_Kept(ids, client_id) == ids

\* client_version.is_some() on a ProtocolSupport
DuplicateSupport == client_version # 0

\* min_version > 1 || max_version < 1
VersionMismatch(msg) == msg.min_version > 1 \/ msg.max_version < 1

\* client_version.is_none()
VersionUnset == client_version = 0

\* connection_clients.is_empty()
NoUsers == connection_clients = <<>>

\* connection_clients.entry(user_id) is Occupied
AlreadyRegistered(user_id) == user_id \in DOMAIN connection_clients

\* client_ids.remove(&client_ref.client_id)
RemoveClientId(ids, client_id) == Remove(ids, client_id)

ProtocolSupport(msg) ==
    /\ Received(msg, FALSE)
    /\ IF DuplicateSupport THEN
            DropConnection /\ UNCHANGED client_version
       ELSE IF VersionMismatch(msg) THEN
            DropConnection /\ UNCHANGED client_version
       ELSE /\ client_version' = 1
            /\ todo' = <<SendOp(ProtocolVersionMsg), SendOp(PayoutInfoMsg)>>
            /\ UNCHANGED connState
    /\ UNCHANGED <<connection_clients, client_ids, max_client_id, last_weak_block,
                   obj, users, chanVars, rxOpen, tickVars, minted, removed, lastSD>>

\* Fault variant: the cache is not updated at the end of the WeakBlock arm.
Continue_Forgets(rest) ==
    IF rest # <<>> /\ Head(rest).op = "set_last_weak_block"
    THEN todo' = Tail(rest) /\ UNCHANGED last_weak_block
    ELSE todo' = rest /\ UNCHANGED last_weak_block

\* What is left of the handler after a step.  `last_weak_block = Some(new_txn)`
\* touches nothing shared, so it runs in the step that reaches it.
Continue(rest) ==
    IF rest # <<>> /\ Head(rest).op = "set_last_weak_block"
    THEN todo' = Tail(rest) /\ last_weak_block' = <<Head(rest).txn>>
    ELSE todo' = rest /\ UNCHANGED last_weak_block

\* send_response!: start_send on the connection's send_sink.
ConnSend ==
    /\ connState = "open"
    /\ todo # <<>>
    /\ Head(todo).op = "send"
    /\ IF ~rxOpen THEN
            \* Err(_): the receiver is gone
            DropConnection /\ UNCHANGED <<chanVars, emitted, last_weak_block, lastSD>>
       ELSE IF \E i \in DOMAIN parkedQ : parkedQ[i] = "conn" THEN
            \* Ok(AsyncSink::NotReady(msg)): the message is handed back and dropped
            /\ emitted' = Append(emitted, [msg |-> Head(todo).msg, queued |-> FALSE])
            /\ Continue(Tail(todo))
            /\ UNCHANGED <<chanVars, connState, lastSD>>
       ELSE \* Ok(AsyncSink::Ready)
            /\ numMessages' = numMessages + 1
            /\ parkedQ' = IF numMessages + 1 > CHANNEL_BUFFER
                          THEN Append(parkedQ, "conn") ELSE parkedQ
            /\ emitted' = Append(emitted, [msg |-> Head(todo).msg, queued |-> TRUE])
            /\ lastSD' = IF Head(todo).msg.type = "ShareDifficulty"
                          THEN Put(lastSD, Head(todo).msg.user_id, Head(todo).msg)
                          ELSE lastSD
            /\ Continue(Tail(todo))
            /\ UNCHANGED connState
    /\ UNCHANGED <<client_version, connection_clients, client_ids, max_client_id,
                   obj, users, rxOpen, tickVars, lastIn, minted, removed, judged>>

\* Fault variant: the leading-zero counts are taken as they are.
initial_target_NoOffset(info) ==
    Min(MAX_TARGET_LEADING_0S,
        Max(MIN_TARGET_LEADING_0S,
            Max(count_leading_zeros(info.suggested_target),
                count_leading_zeros(info.minimum_target))))

\* cmp::min(MAX, cmp::max(MIN, cmp::max(clz(suggested) + 1, clz(minimum) + 1)))
initial_target(info) ==
    Min(MAX_TARGET_LEADING_0S,
        Max(MIN_TARGET_LEADING_0S,
            Max(count_leading_zeros(info.suggested_target) + 1,
                count_leading_zeros(info.minimum_target) + 1)))

\* Arc::new(PerUserClientRef { .. })
PerUserClientRef(info, client_id) ==
    [client_id |-> client_id,
     user_id |-> info.user_id,
     min_target |-> count_leading_zeros(info.minimum_target) + 1,
     cur_target |-> initial_target(info),
     accepted_shares |-> 0]

\* `allow` is what the pluggable check_user_auth answers for this message.
UserAuth(msg, allow) ==
    /\ Received(msg, allow)
    /\ IF VersionUnset \/ AlreadyRegistered(msg.info.user_id) THEN
            /\ DropConnection
            /\ UNCHANGED <<connection_clients, client_ids, max_client_id, obj, users, minted>>
       ELSE IF allow THEN
            /\ max_client_id < MaxClients
            \* users_ref.lock(): the tick holds the mutex for its whole scan
            /\ tickPc = "idle"
            /\ max_client_id' = max_client_id + 1
            /\ client_ids' = Put(client_ids, max_client_id, msg.info.user_id)
            /\ connection_clients' = Put(connection_clients, msg.info.user_id, max_client_id)
            /\ obj' = Put(obj, max_client_id, PerUserClientRef(msg.info, max_client_id))
            /\ users' = Append(users, max_client_id)
            /\ minted' = Append(minted, max_client_id)
            /\ todo' = <<SendOp(AcceptUserAuthMsg(msg.info.user_id, max_client_id)),
                         SendOp(ShareDifficultyMsg(msg.info.user_id, initial_target(msg.info)))>>
            /\ UNCHANGED connState
       ELSE IF NoUsers THEN
            /\ DropConnection
            /\ UNCHANGED <<connection_clients, client_ids, max_client_id, obj, users, minted>>
       ELSE /\ todo' = <<SendOp(RejectUserAuthMsg(msg.info.user_id))>>
            /\ UNCHANGED <<connection_clients, client_ids, max_client_id, users, connState, obj,
                           minted>>
    /\ UNCHANGED <<client_version, last_weak_block, chanVars, rxOpen, tickVars, removed, lastSD>>

DropUser(msg) ==
    /\ Received(msg, FALSE)
    /\ IF AlreadyRegistered(msg.user_id) THEN
            LET client_ref == connection_clients[msg.user_id] IN
            /\ connection_clients' = Remove(connection_clients, msg.user_id)
            /\ client_ids' = RemoveClientId(client_ids, obj[client_ref].client_id)
            /\ obj' = IF client_ref \in TickHeld THEN obj ELSE Remove(obj, client_ref)
            /\ removed' = removed \cup {msg.user_id}
            /\ lastSD' = Remove(lastSD, msg.user_id)
            /\ UNCHANGED <<connState, todo>>
       ELSE /\ DropConnection
            /\ UNCHANGED <<connection_clients, client_ids, obj, removed, lastSD>>
    /\ UNCHANGED <<client_version, max_client_id, last_weak_block, users, chanVars, rxOpen,
                   tickVars, minted>>

VendorMessage(msg) ==
    /\ Received(msg, FALSE)
    /\ UNCHANGED <<connVars, connState, todo, obj, users, chanVars, rxOpen, tickVars,
                   minted, removed, lastSD>>

\* ProtocolVersion, PayoutInfo, AcceptUserAuth, RejectUserAuth, ShareDifficulty,
\* WeakBlockStateReset, ShareAccepted, ShareRejected, NewPoolServer
OutboundOnly(msg) ==
    /\ Received(msg, FALSE)
    /\ DropConnection
    /\ UNCHANGED <<connVars, obj, users, chanVars, rxOpen, tickVars, minted, removed, lastSD>>

BadPayoutInfo == [ok |-> FALSE]

\* check_coinbase_tx!: BadPayoutInfo, or the payout and the user the coinbase names
check_coinbase_tx(coinbase_tx) ==
    IF Len(coinbase_tx.input) # 1 \/ Len(coinbase_tx.output) < 1 THEN BadPayoutInfo
    ELSE IF coinbase_tx.output[1].script_pubkey # payout_script THEN BadPayoutInfo
    ELSE IF \E idx \in 2..Len(coinbase_tx.output) : coinbase_tx.output[idx].value # 0
         THEN BadPayoutInfo
    ELSE LET coinbase == coinbase_tx.input[1] IN
         IF Len(coinbase) < 8 THEN BadPayoutInfo
         ELSE LET id == slice_to_le64(SubSeq(coinbase, Len(coinbase) - 7, Len(coinbase))) IN
              IF id \notin DOMAIN client_ids THEN BadPayoutInfo
              ELSE [ok |-> TRUE, our_payout |-> coinbase_tx.output[1].value,
                    client_id |-> client_ids[id]]

\* The header hash is an input: msg.z is its count of leading zeros.
Share(msg) ==
    /\ Received(msg, FALSE)
    /\ \A id \in DOMAIN obj : obj[id].accepted_shares < MaxShares
    /\ IF VersionUnset \/ NoUsers THEN
            DropConnection
       ELSE LET checked == check_coinbase_tx(msg.coinbase_tx) IN
            /\ todo' = IF ~checked.ok
                       THEN <<SendOp(ShareRejectedMsg(msg.user_tag_1, "BadPayoutInfo"))>>
                       ELSE <<[op |-> "load", kind |-> "Share", user |-> checked.client_id,
                               z |-> msg.z, tag |-> msg.user_tag_1]>>
            /\ UNCHANGED connState
    /\ UNCHANGED <<connVars, obj, users, chanVars, rxOpen, tickVars, minted, removed, lastSD>>

EmptyVec == [bytes |-> "", parsed |-> <<>>]

\* The reconstruction loop: TakeTx swaps the transaction out of the cached
\* list (mem::swap with a fresh Vec), NewTx pushes its own bytes.
RECURSIVE reconstruct(_, _, _)
reconstruct(actions, last_weak_ref, new_txn) ==
    IF actions = <<>> THEN [ok |-> TRUE, last |-> last_weak_ref, txn |-> new_txn]
    ELSE LET action == Head(actions) IN
         IF action.a = "TakeTx" THEN
              IF action.n >= Len(last_weak_ref)
              THEN [ok |-> FALSE, last |-> last_weak_ref, txn |-> new_txn]
              ELSE reconstruct(Tail(actions),
                               [last_weak_ref EXCEPT ![action.n + 1] = EmptyVec],
                               Append(new_txn, last_weak_ref[action.n + 1]))
         ELSE reconstruct(Tail(actions), last_weak_ref, Append(new_txn, action.tx))

RejectSketch(msg, reason) ==
    <<SendOp(ShareRejectedMsg(msg.user_tag_1, reason)), SendOp(WeakBlockStateResetMsg)>>

WeakBlock(msg) ==
    /\ Received(msg, FALSE)
    /\ \A id \in DOMAIN obj : obj[id].accepted_shares < MaxShares
    /\ IF VersionUnset \/ NoUsers \/ Len(msg.txn) < 1 THEN
            DropConnection /\ UNCHANGED last_weak_block
       ELSE IF msg.txn[1].a = "TakeTx" THEN
            /\ todo' = RejectSketch(msg, "BadWork")
            /\ UNCHANGED <<connState, last_weak_block>>
       ELSE IF msg.txn[1].tx.parsed = <<>> THEN
            /\ todo' = RejectSketch(msg, "BadPayoutInfo")
            /\ UNCHANGED <<connState, last_weak_block>>
       ELSE LET checked == check_coinbase_tx(msg.txn[1].tx.parsed[1]) IN
            IF ~checked.ok THEN
                 /\ todo' = RejectSketch(msg, "BadPayoutInfo")
                 /\ UNCHANGED <<connState, last_weak_block>>
            ELSE LET r == reconstruct(msg.txn,
                                      IF last_weak_block = <<>> THEN <<>>
                                      ELSE last_weak_block[1], <<>>) IN
                 /\ last_weak_block' = IF last_weak_block = <<>> THEN <<>> ELSE <<r.last>>
                 /\ todo' = IF r.ok
                            THEN <<[op |-> "load", kind |-> "WeakBlock",
                                    user |-> checked.client_id, z |-> msg.z,
                                    tag |-> msg.user_tag_1],
                                   [op |-> "set_last_weak_block", txn |-> r.txn]>>
                            ELSE RejectSketch(msg, "BadWork")
                 /\ UNCHANGED connState
    /\ UNCHANGED <<client_version, connection_clients, client_ids, max_client_id,
                   obj, users, chanVars, rxOpen, tickVars, minted, removed, lastSD>>

\* Fault variant: a hash with exactly the target's leading zeros is refused.
meets_target_Strict(leading_zeros, target) == leading_zeros > target

\* leading_zeros >= client_target, leading_zeros >= client_target + WEAK_BLOCK_RATIO_0S
meets_target(leading_zeros, target) == leading_zeros >= target

\* client.cur_target.load(), and the comparison with the hash
LoadTarget ==
    /\ connState = "open"
    /\ todo # <<>>
    /\ Head(todo).op = "load"
    /\ LET h == Head(todo)
           client == connection_clients[h.user]
           client_target == obj[client].cur_target
           received == <<SendOp(ShareAcceptedMsg(h.tag)),
                         [op |-> "fetch_add", client |-> client, cur_target |-> client_target]>>
           rejected == <<SendOp(ShareRejectedMsg(h.tag, "BadHash"))>> IN
       /\ judged' = client_target
       /\ todo' = (IF h.kind = "Share" THEN
                        IF meets_target(h.z, client_target + WEAK_BLOCK_RATIO_0S) THEN <<>>
                        ELSE IF meets_target(h.z, client_target) THEN received
                        ELSE rejected
                    ELSE IF meets_target(h.z, client_target + WEAK_BLOCK_RATIO_0S) THEN received
                         ELSE rejected) \o Tail(todo)
    /\ UNCHANGED <<connVars, connState, obj, users, chanVars, rxOpen, tickVars,
                   lastIn, emitted, minted, removed, lastSD>>

\* Fault variant: the burst starts one share early.
burst_due_AtLimit(accepted_shares, cur_target) ==
    /\ accepted_shares + 1 >= MAX_USER_SHARES_PER_30_SEC
    /\ cur_target < MAX_TARGET_LEADING_0S

\* accepted_shares + 1 > MAX_USER_SHARES_PER_30_SEC && $cur_target < MAX_TARGET_LEADING_0S
burst_due(accepted_shares, cur_target) ==
    /\ accepted_shares + 1 > MAX_USER_SHARES_PER_30_SEC
    /\ cur_target < MAX_TARGET_LEADING_0S

\* share_received!: accepted_shares.fetch_add(1), and the burst test
FetchAdd ==
    /\ connState = "open"
    /\ todo # <<>>
    /\ Head(todo).op = "fetch_add"
    /\ LET h == Head(todo)
           accepted_shares == obj[h.client].accepted_shares
           burst == <<SendOp(ShareDifficultyMsg(obj[h.client].user_id, h.cur_target + 1)),
                      [op |-> "store_target", client |-> h.client, v |-> h.cur_target + 1],
                      [op |-> "store_shares", client |-> h.client,
                       v |-> (accepted_shares + 1) \div 2]>> IN
       /\ obj' = [obj EXCEPT ![h.client].accepted_shares = accepted_shares + 1]
       /\ Continue((IF burst_due(accepted_shares, h.cur_target)
                    THEN burst ELSE <<>>) \o Tail(todo))
    /\ UNCHANGED <<client_version, connection_clients, client_ids, max_client_id,
                   connState, users, chanVars, rxOpen, tickVars, histVars>>

\* share_received!: cur_target.store(cur_target + 1)
StoreTarget ==
    /\ connState = "open"
    /\ todo # <<>>
    /\ Head(todo).op = "store_target"
    /\ obj' = [obj EXCEPT ![Head(todo).client].cur_target = Head(todo).v]
    /\ todo' = Tail(todo)
    /\ UNCHANGED <<connVars, connState, users, chanVars, rxOpen, tickVars, histVars>>

\* share_received!: accepted_shares.store((accepted_shares + 1) / 2)
StoreShares ==
    /\ connState = "open"
    /\ todo # <<>>
    /\ Head(todo).op = "store_shares"
    /\ obj' = [obj EXCEPT ![Head(todo).client].accepted_shares = Head(todo).v]
    /\ Continue(Tail(todo))
    /\ UNCHANGED <<client_version, connection_clients, client_ids, max_client_id,
                   connState, users, chanVars, rxOpen, tickVars, histVars>>

\* The socket or the codec fails between two messages: rx.for_each ends.
ReadError ==
    /\ connState = "open"
    /\ todo = <<>>
    /\ DropConnection
    /\ UNCHANGED <<connVars, obj, users, chanVars, rxOpen, tickVars, histVars>>

\* ------------------------------------------------------------ periodic tick
\* Fault variant: the reference the tick took is never given back.
Release_Leak(o, id) == o

\* The owning reference the tick took is dropped: the object goes with it
\* unless the connection still owns it.
Release(o, id) == IF id \in ConnHeld THEN o ELSE Remove(o, id)

\* users_timer_ref.lock()
TickStart ==
    /\ tickPc = "idle"
    /\ tickPc' = "scan"
    /\ tickIdx' = 1
    /\ UNCHANGED <<connVars, connState, todo, obj, users, chanVars, rxOpen, tickLoc, histVars>>

\* retain: weak_user.upgrade(), and accepted_shares.swap(0) when it succeeds
TickUpgrade ==
    /\ tickPc = "scan"
    /\ tickIdx <= Len(users)
    /\ LET id == users[tickIdx] IN
       IF id \in DOMAIN obj THEN
            /\ tickLoc' = [NoLoc EXCEPT !.shares = obj[id].accepted_shares]
            /\ obj' = [obj EXCEPT ![id].accepted_shares = 0]
            /\ tickPc' = "load"
            /\ UNCHANGED users
       ELSE /\ users' = RemoveAt(users, tickIdx)
            /\ UNCHANGED <<obj, tickPc, tickLoc>>
    /\ UNCHANGED <<connVars, connState, todo, chanVars, rxOpen, tickIdx, histVars>>

\* Fault variant: the raise is not capped at MAX_TARGET_LEADING_0S.
tick_new_target_Uncapped(shares, cur_target, min_target) ==
    IF shares > MAX_USER_SHARES_PER_30_SEC
    THEN cur_target + 1
    ELSE IF /\ shares < MIN_USER_SHARES_PER_30_SEC
            /\ cur_target > MIN_TARGET_LEADING_0S
            /\ cur_target > min_target
    THEN cur_target - 1
    ELSE cur_target

\* Fault variant: the lowering stops one step above MIN_TARGET_LEADING_0S.
tick_new_target_StopsAbove(shares, cur_target, min_target) ==
    IF shares > MAX_USER_SHARES_PER_30_SEC /\ cur_target < MAX_TARGET_LEADING_0S
    THEN cur_target + 1
    ELSE IF /\ shares < MIN_USER_SHARES_PER_30_SEC
            /\ cur_target > MIN_TARGET_LEADING_0S + 1
            /\ cur_target > min_target
    THEN cur_target - 1
    ELSE cur_target

\* Fault variant: the user's min_target does not stop the lowering.
tick_new_target_NoFloor(shares, cur_target, min_target) ==
    IF shares > MAX_USER_SHARES_PER_30_SEC /\ cur_target < MAX_TARGET_LEADING_0S
    THEN cur_target + 1
    ELSE IF shares < MIN_USER_SHARES_PER_30_SEC /\ cur_target > MIN_TARGET_LEADING_0S
    THEN cur_target - 1
    ELSE cur_target

\* let new_target = if .. else if .. else { cur_target }
tick_new_target(shares, cur_target, min_target) ==
    IF shares > MAX_USER_SHARES_PER_30_SEC /\ cur_target < MAX_TARGET_LEADING_0S
    THEN cur_target + 1
    ELSE IF /\ shares < MIN_USER_SHARES_PER_30_SEC
            /\ cur_target > MIN_TARGET_LEADING_0S
            /\ cur_target > min_target
    THEN cur_target - 1
    ELSE cur_target

\* cur_target.load(), new_target
TickLoad ==
    /\ tickPc = "load"
    /\ LET id == users[tickIdx]
           cur == obj[id].cur_target
           new == tick_new_target(tickLoc.shares, cur, obj[id].min_target) IN
       IF new # cur THEN
            /\ tickLoc' = [tickLoc EXCEPT !.cur = cur, !.new = new]
            /\ tickPc' = "send"
            /\ UNCHANGED <<obj, tickIdx>>
       ELSE /\ tickLoc' = NoLoc
            /\ tickPc' = "scan"
            /\ tickIdx' = tickIdx + 1
            /\ obj' = Release(obj, id)
    /\ UNCHANGED <<connVars, connState, todo, users, chanVars, rxOpen, histVars>>

\* let _ = user.send_stream.clone().start_send(ShareDifficulty): a fresh clone
\* is never parked, so the message is queued unless the receiver is gone.
TickSend ==
    /\ tickPc = "send"
    /\ IF rxOpen THEN
            /\ numMessages < MaxQueue
            /\ numMessages' = numMessages + 1
            /\ parkedQ' = IF numMessages + 1 > CHANNEL_BUFFER
                          THEN Append(parkedQ, "tick") ELSE parkedQ
       ELSE UNCHANGED chanVars
    /\ tickLoc' = [tickLoc EXCEPT
            !.msg = ShareDifficultyMsg(obj[users[tickIdx]].user_id, tickLoc.new),
            !.sent = rxOpen]
    /\ lastSD' = IF rxOpen
                  THEN Put(lastSD, obj[users[tickIdx]].user_id,
                           ShareDifficultyMsg(obj[users[tickIdx]].user_id, tickLoc.new))
                  ELSE lastSD
    /\ tickPc' = "store"
    /\ UNCHANGED <<connVars, connState, todo, obj, users, rxOpen, tickIdx,
                   lastIn, emitted, minted, removed, judged>>

\* user.cur_target.store(new_target)
TickStore ==
    /\ tickPc = "store"
    /\ LET id == users[tickIdx] IN
       obj' = Release([obj EXCEPT ![id].cur_target = tickLoc.new], id)
    /\ tickLoc' = NoLoc
    /\ tickPc' = "scan"
    /\ tickIdx' = tickIdx + 1
    /\ UNCHANGED <<connVars, connState, todo, users, chanVars, rxOpen, histVars>>

\* the retain is over: the mutex guard is dropped
TickEnd ==
    /\ tickPc = "scan"
    /\ tickIdx > Len(users)
    /\ tickPc' = "idle"
    /\ tickIdx' = 0
    /\ UNCHANGED <<connVars, connState, todo, obj, users, chanVars, rxOpen, tickLoc, histVars>>

\* ------------------------------------------------------------ writer task
\* tx.send_all(send_stream): takes the next message off the channel (which wakes
\* one parked sender) and writes it to the socket.
WriterRecv ==
    /\ rxOpen
    /\ numMessages > 0
    /\ numMessages' = numMessages - 1
    /\ parkedQ' = IF parkedQ = <<>> THEN <<>> ELSE Tail(parkedQ)
    /\ UNCHANGED <<connVars, connState, todo, obj, users, rxOpen, tickVars, histVars>>

\* The socket write fails: send_all ends and the receiver is dropped, which
\* closes the channel and wakes every parked sender.
WriterFail ==
    /\ rxOpen
    /\ numMessages > 0
    /\ rxOpen' = FALSE
    /\ numMessages' = 0
    /\ parkedQ' = <<>>
    /\ UNCHANGED <<connVars, connState, todo, obj, users, tickVars, histVars>>

\* ------------------------------------------------------------ inbound messages
ProtocolSupportMsg(min_version, max_version, flags) ==
    [type |-> "ProtocolSupport", min_version |-> min_version, max_version |-> max_version,
     flags |-> flags]

UserIds == {"alice", "bob"}
\* client ids a submitted coinbase may carry in its last 8 bytes
CoinbaseIds == {0, 9}

ProtocolSupports ==
    {ProtocolSupportMsg(v[1], v[2], 0) : v \in {<<0, 0>>, <<0, 2>>, <<1, 1>>, <<2, 3>>}}
        \cup {ProtocolSupportMsg(1, 1, 4)}

UserAuthMsg(user_id, suggested_target, minimum_target) ==
    [type |-> "UserAuth",
     info |-> [user_id |-> user_id, suggested_target |-> suggested_target,
               minimum_target |-> minimum_target]]

\* <<suggested, minimum>> as counts of leading zeros
TargetPairs == {<<47, 40>>, <<61, 61>>, <<40, 70>>}

UserAuths ==
    {UserAuthMsg(u, leading_0s_to_target(p[1]), leading_0s_to_target(p[2])) :
        u \in UserIds, p \in TargetPairs}
        \cup {UserAuthMsg(u, one_bit_target(62), one_bit_target(40)) : u \in UserIds}

DropUsers == {[type |-> "DropUser", user_id |-> u] : u \in UserIds}

OutboundOnlyTypes ==
    {"ProtocolVersion", "PayoutInfo", "AcceptUserAuth", "RejectUserAuth", "ShareDifficulty",
     "WeakBlockStateReset", "ShareAccepted", "ShareRejected", "NewPoolServer"}

\* a coinbase paying the pool, its script_sig ending in server_id || le64(id)
coinbase_for(id) ==
    [input |-> <<<<3, 1, 2, 3>> \o server_id \o le64_to_array(id)>>,
     output |-> <<[value |-> 50, script_pubkey |-> payout_script]>>]

coinbase_other_script ==
    [input |-> <<server_id \o le64_to_array(0)>>,
     output |-> <<[value |-> 50, script_pubkey |-> "other_script"]>>]

Coinbases == {coinbase_for(id) : id \in CoinbaseIds} \cup {coinbase_other_script}

ShareMsg(coinbase_tx, z) ==
    [type |-> "Share", coinbase_tx |-> coinbase_tx, z |-> z, user_tag_1 |-> "rig1"]

Serialized(name, tx) == [bytes |-> name, parsed |-> <<tx>>]
NewTx(tx) == [a |-> "NewTx", tx |-> tx]
TakeTx(n) == [a |-> "TakeTx", n |-> n]
T1 == Serialized("T1", [input |-> <<<<1>>>>, output |-> <<[value |-> 1, script_pubkey |-> "a"]>>])
T2 == Serialized("T2", [input |-> <<<<2>>>>, output |-> <<[value |-> 2, script_pubkey |-> "b"]>>])
Garbage == [bytes |-> "garbage", parsed |-> <<>>]
CoinbaseBytes(id) == Serialized("coinbase", coinbase_for(id))

WeakBlockMsg(txn, z) ==
    [type |-> "WeakBlock", txn |-> txn, z |-> z, user_tag_1 |-> "rig2"]

Sketches ==
    {<<>>,
     <<TakeTx(0)>>,
     <<NewTx(Garbage)>>,
     <<NewTx(CoinbaseBytes(9))>>,
     <<NewTx(CoinbaseBytes(0)), NewTx(T1)>>,
     <<NewTx(CoinbaseBytes(0)), TakeTx(1)>>}

\* ------------------------------------------------------------ specifications
\* The protocol engine with its writer, between two ticks; no submitted hash
\* meets a share target.
LowZs == {46}

Next ==
    \/ \E m \in ProtocolSupports : ProtocolSupport(m)
    \/ \E m \in UserAuths, allow \in BOOLEAN : UserAuth(m, allow)
    \/ \E m \in DropUsers : DropUser(m)
    \/ \E cb \in Coinbases, z \in LowZs : Share(ShareMsg(cb, z))
    \/ \E txn \in Sketches, z \in LowZs : WeakBlock(WeakBlockMsg(txn, z))
    \/ VendorMessage([type |-> "VendorMessage"])
    \/ \E t \in OutboundOnlyTypes : OutboundOnly([type |-> t])
    \/ ReadError
    \/ TaskDrop
    \/ ConnSend
    \/ LoadTarget
    \/ WriterRecv
    \/ WriterFail

Spec == Init /\ [][Next]_vars

\* The difficulty controller: one user id on the connection, the tick and the
\* share path step by step, a peer that reads every message before the next
\* step of the server (the channel never fills) and a socket that does not fail.
CtlPairs == {<<47, 40>>, <<61, 61>>, <<40, 70>>}
CtlShareZs == {48, 62, 70}
CtlWeakZs == {56}

CtlUserAuths ==
    {UserAuthMsg("alice", leading_0s_to_target(p[1]), leading_0s_to_target(p[2])) :
        p \in CtlPairs}

NextCtl ==
    \/ numMessages = 0 /\ ProtocolSupport(ProtocolSupportMsg(1, 1, 0))
    \/ numMessages = 0 /\ \E m \in CtlUserAuths : UserAuth(m, TRUE)
    \/ numMessages = 0 /\ \E z \in CtlShareZs : Share(ShareMsg(coinbase_for(0), z))
    \/ numMessages = 0 /\ \E z \in CtlWeakZs :
            WeakBlock(WeakBlockMsg(<<NewTx(CoinbaseBytes(0))>>, z))
    \/ numMessages = 0 /\ ReadError
    \/ numMessages = 0 /\ TaskDrop
    \/ numMessages = 0 /\ ConnSend
    \/ numMessages = 0 /\ LoadTarget
    \/ numMessages = 0 /\ FetchAdd
    \/ numMessages = 0 /\ StoreTarget
    \/ numMessages = 0 /\ StoreShares
    \/ numMessages = 0 /\ TickStart
    \/ numMessages = 0 /\ TickUpgrade
    \/ numMessages = 0 /\ TickLoad
    \/ numMessages = 0 /\ TickSend
    \/ numMessages = 0 /\ TickStore
    \/ numMessages = 0 /\ TickEnd
    \/ WriterRecv

SpecCtl == Init /\ [][NextCtl]_vars

\* The share path between two ticks: SpecCtl without the tick.
NextShare ==
    \/ numMessages = 0 /\ ProtocolSupport(ProtocolSupportMsg(1, 1, 0))
    \/ numMessages = 0 /\ \E m \in CtlUserAuths : UserAuth(m, TRUE)
    \/ numMessages = 0 /\ \E z \in CtlShareZs : Share(ShareMsg(coinbase_for(0), z))
    \/ numMessages = 0 /\ \E z \in CtlWeakZs :
            WeakBlock(WeakBlockMsg(<<NewTx(CoinbaseBytes(0))>>, z))
    \/ numMessages = 0 /\ ConnSend
    \/ numMessages = 0 /\ LoadTarget
    \/ numMessages = 0 /\ FetchAdd
    \/ numMessages = 0 /\ StoreTarget
    \/ numMessages = 0 /\ StoreShares
    \/ WriterRecv

SpecShare == Init /\ [][NextShare]_vars

\* The weak-block cache: one user at target 48, sketches that build a base, take
\* from it in and out of order, take an index twice, and fail at each of the
\* handler's tests; hashes below and at the weak-block target.
WeakSketches ==
    {<<TakeTx(0)>>,
     <<NewTx(Garbage)>>,
     <<NewTx(CoinbaseBytes(9))>>,
     <<NewTx(CoinbaseBytes(0)), NewTx(T1), NewTx(T2)>>,
     <<NewTx(CoinbaseBytes(0)), TakeTx(2), TakeTx(1)>>,
     <<NewTx(CoinbaseBytes(0)), TakeTx(1), TakeTx(1)>>,
     <<NewTx(CoinbaseBytes(0)), TakeTx(1), TakeTx(5)>>}
WeakZs == {46, 56}

NextWeak ==
    \/ numMessages = 0 /\ ProtocolSupport(ProtocolSupportMsg(1, 1, 0))
    \/ numMessages = 0 /\
            UserAuth(UserAuthMsg("alice", leading_0s_to_target(47), leading_0s_to_target(40)),
                     TRUE)
    \/ numMessages = 0 /\ \E txn \in WeakSketches, z \in WeakZs :
            WeakBlock(WeakBlockMsg(txn, z))
    \/ numMessages = 0 /\ ConnSend
    \/ numMessages = 0 /\ LoadTarget
    \/ numMessages = 0 /\ FetchAdd
    \/ numMessages = 0 /\ StoreTarget
    \/ numMessages = 0 /\ StoreShares
    \/ WriterRecv

SpecWeak == Init /\ [][NextWeak]_vars

\* Authentication over the whole range of targets: one user, the predicate
\* allows, <<suggested, minimum>> range over AuthZs x AuthMinZs.
AuthZs == 45 .. 65
AuthMinZs == {40, 50, 64}

AuthUserAuths ==
    {UserAuthMsg("alice", leading_0s_to_target(sz), leading_0s_to_target(mz)) :
        sz \in AuthZs, mz \in AuthMinZs}

NextAuth ==
    \/ ProtocolSupport(ProtocolSupportMsg(1, 1, 0))
    \/ \E m \in AuthUserAuths : UserAuth(m, TRUE)
    \/ ConnSend
    \/ WriterRecv

SpecAuth == Init /\ [][NextAuth]_vars


\* The tick beside the life of a connection: two users come and go, the read
\* side and the socket writer may fail, the task is dropped. No share arrives.
LifePairs == {<<47, 40>>, <<50, 40>>}

LifeUserAuths ==
    {UserAuthMsg(u, leading_0s_to_target(p[1]), leading_0s_to_target(p[2])) :
        u \in UserIds, p \in LifePairs}

NextLife ==
    \/ numMessages = 0 /\ ProtocolSupport(ProtocolSupportMsg(1, 1, 0))
    \/ numMessages = 0 /\ \E m \in LifeUserAuths : UserAuth(m, TRUE)
    \/ numMessages = 0 /\ \E m \in DropUsers : DropUser(m)
    \/ numMessages = 0 /\ ReadError
    \/ numMessages = 0 /\ TaskDrop
    \/ ConnSend
    \/ numMessages = 0 /\ TickStart
    \/ numMessages = 0 /\ TickUpgrade
    \/ numMessages = 0 /\ TickLoad
    \/ TickSend
    \/ numMessages = 0 /\ TickStore
    \/ numMessages = 0 /\ TickEnd
    \/ WriterRecv
    \/ WriterFail

SpecLife == Init /\ [][NextLife]_vars

\* The tick racing with the share path only: it interleaves freely with the
\* handling of a Share or WeakBlock, and does not start within a UserAuth.
NextRace ==
    \/ numMessages = 0 /\ ProtocolSupport(ProtocolSupportMsg(1, 1, 0))
    \/ numMessages = 0 /\ \E m \in CtlUserAuths : UserAuth(m, TRUE)
    \/ numMessages = 0 /\ \E z \in CtlShareZs : Share(ShareMsg(coinbase_for(0), z))
    \/ numMessages = 0 /\ \E z \in CtlWeakZs :
            WeakBlock(WeakBlockMsg(<<NewTx(CoinbaseBytes(0))>>, z))
    \/ numMessages = 0 /\ ConnSend
    \/ numMessages = 0 /\ LoadTarget
    \/ numMessages = 0 /\ FetchAdd
    \/ numMessages = 0 /\ StoreTarget
    \/ numMessages = 0 /\ StoreShares
    \/ numMessages = 0 /\ (lastIn.msg.type = "UserAuth" => todo = <<>>) /\ TickStart
    \/ numMessages = 0 /\ TickUpgrade
    \/ numMessages = 0 /\ TickLoad
    \/ numMessages = 0 /\ TickSend
    \/ numMessages = 0 /\ TickStore
    \/ numMessages = 0 /\ TickEnd
    \/ WriterRecv

SpecRace == Init /\ [][NextRace]_vars

\* A connection that stays live, with users that stay registered and no share
\* that meets its target: only messages the handlers answer without dropping
\* the connection arrive. The timer fires every 30 seconds and the runtime
\* schedules the writer, so the tick and the writer are weakly fair.
LivePairs == {<<50, 40>>, <<55, 52>>, <<61, 61>>, <<40, 70>>}

LiveUserAuths ==
    {UserAuthMsg(u, leading_0s_to_target(p[1]), leading_0s_to_target(p[2])) :
        u \in UserIds, p \in LivePairs}

Tick == TickStart \/ TickUpgrade \/ TickLoad \/ TickSend \/ TickStore \/ TickEnd

NextLive ==
    \/ numMessages = 0 /\ client_version = 0 /\ ProtocolSupport(ProtocolSupportMsg(1, 1, 0))
    \/ numMessages = 0 /\ client_version # 0
            /\ \E m \in LiveUserAuths :
                    m.info.user_id \notin DOMAIN connection_clients /\ UserAuth(m, TRUE)
    \/ numMessages = 0 /\ 0 \in DOMAIN client_ids
            /\ \E z \in LowZs : Share(ShareMsg(coinbase_for(0), z))
    \/ numMessages = 0 /\ ConnSend
    \/ numMessages = 0 /\ LoadTarget
    \/ numMessages = 0 /\ TickStart
    \/ numMessages = 0 /\ TickUpgrade
    \/ numMessages = 0 /\ TickLoad
    \/ numMessages = 0 /\ TickSend
    \/ numMessages = 0 /\ TickStore
    \/ numMessages = 0 /\ TickEnd
    \/ WriterRecv

SpecLive == Init /\ [][NextLive]_vars /\ WF_vars(Tick) /\ WF_vars(WriterRecv)

\* The tick as one step of the share path: it may start at any point of a
\* handler, and no step of a handler is taken while it scans.
NextSeq ==
    \/ numMessages = 0 /\ tickPc = "idle" /\ ProtocolSupport(ProtocolSupportMsg(1, 1, 0))
    \/ numMessages = 0 /\ tickPc = "idle" /\ \E m \in CtlUserAuths : UserAuth(m, TRUE)
    \/ numMessages = 0 /\ tickPc = "idle"
            /\ \E z \in CtlShareZs : Share(ShareMsg(coinbase_for(0), z))
    \/ numMessages = 0 /\ tickPc = "idle" /\ ConnSend
    \/ numMessages = 0 /\ tickPc = "idle" /\ LoadTarget
    \/ numMessages = 0 /\ tickPc = "idle" /\ FetchAdd
    \/ numMessages = 0 /\ tickPc = "idle" /\ StoreTarget
    \/ numMessages = 0 /\ tickPc = "idle" /\ StoreShares
    \/ numMessages = 0 /\ TickStart
    \/ numMessages = 0 /\ TickUpgrade
    \/ numMessages = 0 /\ TickLoad
    \/ numMessages = 0 /\ TickSend
    \/ numMessages = 0 /\ TickStore
    \/ numMessages = 0 /\ TickEnd
    \/ WriterRecv

SpecSeq == Init /\ [][NextSeq]_vars

\* ------------------------------------------------------------ properties
\* The handler of the last inbound message ran to its end on an open connection.
Handled == connState = "open" /\ todo = <<>>

\* The messages the handler of the last inbound message handed to the channel.
Emitted == [i \in DOMAIN emitted |-> emitted[i].msg]

DroppedSilently ==
    /\ connState' = "failed"
    /\ todo' = <<>>
    /\ emitted' = <<>>
    /\ UNCHANGED <<connVars, obj, users, chanVars, minted, removed>>

\* The handler returned Ok without sending or changing anything.
Ignored ==
    /\ connState' = "open"
    /\ todo' = <<>>
    /\ emitted' = <<>>
    /\ UNCHANGED <<connVars, obj, users, chanVars, minted, removed>>

\* Every UserAuth, DropUser, Share, WeakBlock and outbound-only message of the
\* step drops the connection silently.
OthersDrop ==
    /\ \A m \in UserAuths, a \in BOOLEAN : UserAuth(m, a) => DroppedSilently
    /\ \A m \in DropUsers : DropUser(m) => DroppedSilently
    /\ \A cb \in Coinbases, z \in LowZs : Share(ShareMsg(cb, z)) => DroppedSilently
    /\ \A txn \in Sketches, z \in LowZs : WeakBlock(WeakBlockMsg(txn, z)) => DroppedSilently
    /\ \A t \in OutboundOnlyTypes : OutboundOnly([type |-> t]) => DroppedSilently

\* C2 as stated: before a ProtocolSupport was accepted, every inbound message
\* other than ProtocolSupport, VendorMessage included, drops the connection
\* without a response.
C2_Claimed ==
    [][client_version = 0 =>
        /\ OthersDrop
        /\ VendorMessage([type |-> "VendorMessage"]) => DroppedSilently]_vars

\* C2: before a ProtocolSupport was accepted, a UserAuth, DropUser, Share,
\* WeakBlock or outbound-only message drops the connection without a response;
\* a VendorMessage is ignored: the connection stays open, nothing is sent and
\* nothing changes.
C2_FreshConnect ==
    [][client_version = 0 =>
        /\ OthersDrop
        /\ VendorMessage([type |-> "VendorMessage"]) => Ignored]_vars

\* A VendorMessage was received before any ProtocolSupport and the connection
\* is open.
C2_Witness ==
    /\ lastIn.msg.type = "VendorMessage"
    /\ client_version = 0
    /\ connState = "open"
    /\ emitted = <<>>

\* C3: a ProtocolSupport received after one was accepted drops the connection
\* whatever its version range and whatever users are registered, and once the
\* connection is dropped nothing more is handed to its channel.
C3_NegotiatedOnce ==
    [][/\ client_version # 0 =>
            \A m \in ProtocolSupports : ProtocolSupport(m) => DroppedSilently
       /\ connState # "open" =>
            Len(emitted') <= Len(emitted) /\ numMessages' <= numMessages]_vars

\* A second ProtocolSupport with a supported range dropped a connection that
\* has a user registered.
C3_Witness ==
    /\ connState = "failed"
    /\ lastIn.msg.type = "ProtocolSupport"
    /\ lastIn.msg.min_version <= 1 /\ 1 <= lastIn.msg.max_version
    /\ client_version = 1
    /\ connection_clients # <<>>
    /\ emitted = <<>>

\* C4: a first ProtocolSupport with min_version <= 1 <= max_version (any flags)
\* sets the version and is answered by exactly two messages, both queued, in
\* this order: ProtocolVersion{selected_version = 1, flags = 0}, then a signed
\* PayoutInfo with the configured payout script and no appended output; one with
\* min_version > 1 or max_version < 1 drops the connection without a response
\* and leaves the version unset.
C4_Negotiation ==
    [][/\ client_version = 0 =>
            \A m \in ProtocolSupports : ProtocolSupport(m) =>
                IF m.min_version <= 1 /\ 1 <= m.max_version
                THEN client_version' = 1 /\ connState' = "open" /\ Len(todo') = 2
                ELSE DroppedSilently /\ client_version' = 0
       /\ (connState' = "open" /\ todo' = <<>> /\ lastIn'.msg.type = "ProtocolSupport") =>
            /\ Len(emitted') = 2
            /\ emitted'[1].queued /\ emitted'[2].queued
            /\ emitted'[1].msg.type = "ProtocolVersion"
            /\ emitted'[1].msg.selected_version = 1
            /\ emitted'[1].msg.flags = 0
            /\ emitted'[2].msg.type = "PayoutInfo"
            /\ emitted'[2].msg.signature.key = "auth_key"
            /\ emitted'[2].msg.remaining_payout = payout_script
            /\ emitted'[2].msg.appended_outputs = <<>>]_vars

\* A ProtocolSupport with unknown flags was answered by its two messages.
C4_Witness ==
    /\ Handled
    /\ lastIn.msg.type = "ProtocolSupport"
    /\ lastIn.msg.flags # 0
    /\ client_version = 1
    /\ Len(emitted) = 2

\* C5: while connection_clients is empty a Share, WeakBlock or DropUser drops
\* the connection without a response; a DropUser naming a registered user
\* removes exactly that user from connection_clients and from client_ids, sends
\* nothing and keeps the connection open.
C5_NoUsers ==
    [][/\ connection_clients = <<>> =>
            /\ \A m \in DropUsers : DropUser(m) => DroppedSilently
            /\ \A cb \in Coinbases, z \in LowZs : Share(ShareMsg(cb, z)) => DroppedSilently
            /\ \A txn \in Sketches, z \in LowZs :
                    WeakBlock(WeakBlockMsg(txn, z)) => DroppedSilently
       /\ \A m \in DropUsers :
            (DropUser(m) /\ m.user_id \in DOMAIN connection_clients) =>
                /\ connState' = "open" /\ todo' = <<>> /\ emitted' = <<>>
                /\ DOMAIN connection_clients' = DOMAIN connection_clients \ {m.user_id}
                /\ \A u \in DOMAIN connection_clients' :
                        connection_clients'[u] = connection_clients[u]
                /\ DOMAIN client_ids' =
                        {id \in DOMAIN client_ids : client_ids[id] # m.user_id}
                /\ \A id \in DOMAIN client_ids' : client_ids'[id] = client_ids[id]]_vars

\* Every user of the connection was removed by DropUser, and the Share or
\* WeakBlock that followed dropped the connection.
C5_Witness ==
    /\ connState = "failed"
    /\ lastIn.msg.type \in {"Share", "WeakBlock"}
    /\ client_version = 1
    /\ removed # {}
    /\ connection_clients = <<>>
    /\ emitted = <<>>

\* C6: a UserAuth whose user_id is registered on the connection drops the
\* connection whatever check_user_auth would answer, mints no client id and
\* changes neither index; an allowed UserAuth whose user_id is not registered,
\* also one removed by DropUser before, registers it.
C6_Duplicate ==
    [][\A m \in UserAuths, a \in BOOLEAN : UserAuth(m, a) =>
            /\ m.info.user_id \in DOMAIN connection_clients => DroppedSilently
            /\ (a /\ client_version # 0 /\ m.info.user_id \notin DOMAIN connection_clients) =>
                    /\ connState' = "open"
                    /\ m.info.user_id \in DOMAIN connection_clients']_vars

\* A user was removed, registered again, and a further UserAuth for it, which
\* check_user_auth would have allowed, dropped the connection.
C6_Witness ==
    /\ connState = "failed"
    /\ lastIn.msg.type = "UserAuth"
    /\ lastIn.allow
    /\ lastIn.msg.info.user_id \in removed
    /\ lastIn.msg.info.user_id \in DOMAIN connection_clients
    /\ emitted = <<>>

\* C7: when check_user_auth denies a UserAuth, with at least one user in
\* connection_clients the handler sends RejectUserAuth{user_id} and nothing
\* else, the connection stays open and the registry and max_client_id are
\* unchanged; with connection_clients empty, also after every user was dropped,
\* the connection is dropped without a response.
C7_Deny ==
    [][/\ \A m \in UserAuths :
            (/\ UserAuth(m, FALSE)
             /\ client_version # 0
             /\ m.info.user_id \notin DOMAIN connection_clients) =>
                IF connection_clients # <<>>
                THEN /\ connState' = "open"
                     /\ Len(todo') = 1
                     /\ UNCHANGED <<connVars, obj, users, minted>>
                ELSE DroppedSilently
       /\ (/\ connState' = "open" /\ todo' = <<>>
           /\ lastIn'.msg.type = "UserAuth" /\ ~lastIn'.allow) =>
            Emitted' = <<[type |-> "RejectUserAuth",
                          user_id |-> lastIn'.msg.info.user_id]>>]_vars

\* A denied UserAuth was answered RejectUserAuth on a connection that has lost
\* one of its users and still has one.
C7_Witness ==
    /\ Handled
    /\ lastIn.msg.type = "UserAuth"
    /\ ~lastIn.allow
    /\ removed # {}
    /\ connection_clients # <<>>
    /\ Len(emitted) = 1
    /\ emitted[1].queued

\* C8: an allowed UserAuth registers the user in connection_clients, client_ids
\* and users under the client id taken from max_client_id before anything is
\* sent, and hands exactly two messages to the channel in this order: a signed
\* AcceptUserAuth with coinbase_postfix = server_id || le64(client_id), then a
\* ShareDifficulty for the same user_id carrying cur_target and
\* cur_target + WEAK_BLOCK_RATIO_0S.
C8_Accept ==
    [][/\ \A m \in UserAuths :
            (/\ UserAuth(m, TRUE)
             /\ client_version # 0
             /\ m.info.user_id \notin DOMAIN connection_clients) =>
                /\ connState' = "open"
                /\ Len(todo') = 2 /\ emitted' = <<>>
                /\ max_client_id' = max_client_id + 1
                /\ minted' = Append(minted, max_client_id)
                /\ m.info.user_id \in DOMAIN connection_clients'
                /\ obj'[connection_clients'[m.info.user_id]].client_id = max_client_id
                /\ obj'[connection_clients'[m.info.user_id]].user_id = m.info.user_id
                /\ max_client_id \in DOMAIN client_ids'
                /\ client_ids'[max_client_id] = m.info.user_id
                /\ users'[Len(users')] = connection_clients'[m.info.user_id]
       /\ (/\ connState' = "open" /\ todo' = <<>>
           /\ lastIn'.msg.type = "UserAuth" /\ lastIn'.allow) =>
            LET user_id == lastIn'.msg.info.user_id
                client == obj'[connection_clients'[user_id]] IN
            /\ client.client_id = minted'[Len(minted')]
            /\ Emitted' =
                <<[type |-> "AcceptUserAuth",
                   signature |-> [key |-> "auth_key", msg_type |-> 15],
                   user_id |-> user_id,
                   coinbase_postfix |-> server_id \o <<client.client_id, 0, 0, 0, 0, 0, 0, 0>>],
                  [type |-> "ShareDifficulty",
                   user_id |-> user_id,
                   share_target |-> leading_0s_to_target(client.cur_target),
                   weak_block_target |->
                        leading_0s_to_target(client.cur_target + WEAK_BLOCK_RATIO_0S)]>>]_vars

\* The second user of a connection was answered by its two messages.
C8_Witness ==
    /\ Handled
    /\ lastIn.msg.type = "UserAuth"
    /\ lastIn.allow
    /\ minted = <<0, 1>>
    /\ Len(emitted) = 2

\* The <<suggested, minimum>> pairs of C9: targets leading_0s_to_target(sz) and
\* leading_0s_to_target(mz) with mz < sz and MIN <= sz <= MAX.
C9_Case(sz, mz) ==
    /\ mz < sz
    /\ MIN_TARGET_LEADING_0S <= sz /\ sz <= MAX_TARGET_LEADING_0S
    /\ Handled
    /\ lastIn.msg.type = "UserAuth"
    /\ lastIn.msg.info.suggested_target = leading_0s_to_target(sz)
    /\ lastIn.msg.info.minimum_target = leading_0s_to_target(mz)

\* C9 as stated: the initial ShareDifficulty carries leading_0s_to_target(sz)
\* and leading_0s_to_target(sz + 8).
C9_Claimed ==
    \A sz \in AuthZs, mz \in AuthMinZs : C9_Case(sz, mz) =>
        /\ emitted[2].msg.share_target = leading_0s_to_target(sz)
        /\ emitted[2].msg.weak_block_target = leading_0s_to_target(sz + WEAK_BLOCK_RATIO_0S)

\* C9: for suggested_target = leading_0s_to_target(sz) and minimum_target =
\* leading_0s_to_target(mz) with mz < sz and MIN <= sz <= MAX, the initial
\* ShareDifficulty carries leading_0s_to_target(cz) and
\* leading_0s_to_target(cz + 8) with cz = min(sz + 1, MAX): one leading zero
\* more than suggested, up to the cap.
C9_InitialDifficulty ==
    \A sz \in AuthZs, mz \in AuthMinZs : C9_Case(sz, mz) =>
        LET cz == Min(sz + 1, MAX_TARGET_LEADING_0S) IN
        /\ emitted[2].msg.type = "ShareDifficulty"
        /\ emitted[2].msg.share_target = leading_0s_to_target(cz)
        /\ emitted[2].msg.weak_block_target = leading_0s_to_target(cz + WEAK_BLOCK_RATIO_0S)

\* The scenario: suggested 50 and minimum 40 were answered with 51 and 59.
C9_Witness ==
    /\ C9_Case(50, 40)
    /\ emitted[2].msg.share_target = leading_0s_to_target(51)
    /\ emitted[2].msg.weak_block_target = leading_0s_to_target(59)

\* C10: connection_clients and client_ids describe the same users (each
\* registered user_id maps to a PerUserClientRef whose client_id maps back to
\* it, and client_ids has no other entry), and the client ids minted on the
\* connection are strictly increasing in registration order, so none is used
\* twice, also after its user was dropped.
C10_Registry ==
    /\ \A u \in DOMAIN connection_clients :
            /\ connection_clients[u] \in DOMAIN obj
            /\ obj[connection_clients[u]].user_id = u
            /\ obj[connection_clients[u]].client_id \in DOMAIN client_ids
            /\ client_ids[obj[connection_clients[u]].client_id] = u
    /\ \A id \in DOMAIN client_ids :
            /\ client_ids[id] \in DOMAIN connection_clients
            /\ obj[connection_clients[client_ids[id]]].client_id = id
    /\ \A i, j \in DOMAIN minted : i < j => minted[i] < minted[j]
    /\ \A id \in DOMAIN client_ids : \E i \in DOMAIN minted : minted[i] = id

\* A user was dropped and registered again: it has the second client id, and
\* the first is in no index.
C10_Witness ==
    /\ connState = "open"
    /\ minted = <<0, 1>>
    /\ DOMAIN client_ids = {1}
    /\ client_ids[1] \in removed
    /\ DOMAIN connection_clients = {client_ids[1]}

\* The user a submitted coinbase resolves to, through client_ids.
ResolvedUser(h) == obj[connection_clients[h.user]]

\* C11: with z the leading zeros of the header hash and cur_target the value
\* the handler loaded for the resolved user: a Share is answered ShareAccepted,
\* followed by the increment of accepted_shares, iff
\* cur_target <= z < cur_target + WEAK_BLOCK_RATIO_0S; with
\* z >= cur_target + WEAK_BLOCK_RATIO_0S the handler ends at once, sending and
\* changing nothing; with z < cur_target it sends ShareRejected{BadHash} alone.
\* A reconstructed WeakBlock is answered ShareAccepted iff
\* z >= cur_target + WEAK_BLOCK_RATIO_0S and ShareRejected{BadHash} alone
\* otherwise.
C11_Difficulty ==
    [][/\ LoadTarget =>
            /\ judged' = ResolvedUser(Head(todo)).cur_target
            /\ (/\ Head(todo).kind = "Share"
                /\ Head(todo).z >= judged' + WEAK_BLOCK_RATIO_0S) =>
                    todo' = <<>> /\ UNCHANGED <<obj, emitted, chanVars>>
       /\ FetchAdd =>
            /\ emitted # <<>>
            /\ emitted[Len(emitted)].msg.type = "ShareAccepted"
            /\ obj'[Head(todo).client].accepted_shares =
                    obj[Head(todo).client].accepted_shares + 1
       /\ (/\ connState' = "open" /\ todo' = <<>> /\ judged' # 0
           /\ lastIn'.msg.type = "Share") =>
            LET z == lastIn'.msg.z
                accepted == emitted' # <<>> /\ emitted'[1].msg.type = "ShareAccepted" IN
            /\ accepted <=> (judged' <= z /\ z < judged' + WEAK_BLOCK_RATIO_0S)
            /\ z >= judged' + WEAK_BLOCK_RATIO_0S => emitted' = <<>>
            /\ z < judged' =>
                    Emitted' = <<[type |-> "ShareRejected", user_tag_1 |-> "rig1",
                                  reason |-> "BadHash"]>>
       /\ (/\ connState' = "open" /\ todo' = <<>> /\ judged' # 0
           /\ lastIn'.msg.type = "WeakBlock") =>
            LET z == lastIn'.msg.z
                accepted == emitted' # <<>> /\ emitted'[1].msg.type = "ShareAccepted" IN
            /\ accepted <=> z >= judged' + WEAK_BLOCK_RATIO_0S
            /\ ~accepted =>
                    Emitted' = <<[type |-> "ShareRejected", user_tag_1 |-> "rig2",
                                  reason |-> "BadHash"]>>]_vars

\* A Share whose hash has exactly cur_target leading zeros was accepted and
\* counted, for a user whose target had been raised before.
C11_Witness ==
    /\ Handled
    /\ lastIn.msg.type = "Share"
    /\ lastIn.msg.z = judged
    /\ judged > MIN_TARGET_LEADING_0S + 1
    /\ Emitted = <<[type |-> "ShareAccepted", user_tag_1 |-> "rig1"]>>
    /\ \E id \in DOMAIN obj : obj[id].accepted_shares > 0

\* The handler of the last Share or WeakBlock ended after a ShareAccepted.
AcceptedAndHandled ==
    /\ Handled
    /\ lastIn.msg.type \in {"Share", "WeakBlock"}
    /\ emitted # <<>>
    /\ emitted[1].msg.type = "ShareAccepted"

\* C12: with no tick interleaved, an accepted share or weak block increments
\* accepted_shares by one; if the count after the increment exceeds
\* MAX_USER_SHARES_PER_30_SEC and cur_target < MAX_TARGET_LEADING_0S the handler
\* sends ShareAccepted, then ShareDifficulty for cur_target + 1, stores
\* cur_target + 1 and stores half the incremented count (31 gives 15);
\* otherwise it sends ShareAccepted alone and cur_target stays.
C12_Burst ==
    [][/\ FetchAdd =>
            LET client == Head(todo).client
                post == obj[client].accepted_shares + 1 IN
            /\ obj'[client].accepted_shares = post
            /\ obj'[client].cur_target = judged
            /\ Emitted = <<[type |-> "ShareAccepted", user_tag_1 |-> lastIn.msg.user_tag_1]>>
            /\ IF post > MAX_USER_SHARES_PER_30_SEC /\ judged < MAX_TARGET_LEADING_0S
               THEN todo' # <<>> /\ Head(todo').op = "send"
               ELSE todo' = <<>>
       /\ StoreShares =>
            obj'[Head(todo).client].accepted_shares =
                (obj[Head(todo).client].accepted_shares) \div 2
       /\ AcceptedAndHandled' =>
            LET client == obj'[connection_clients'[client_ids'[0]]] IN
            IF Len(emitted') = 1
            THEN /\ client.cur_target = judged'
                 /\ ~(client.accepted_shares > MAX_USER_SHARES_PER_30_SEC
                        /\ judged' < MAX_TARGET_LEADING_0S)
            ELSE /\ Len(emitted') = 2
                 /\ judged' < MAX_TARGET_LEADING_0S
                 /\ emitted'[2].msg =
                        [type |-> "ShareDifficulty", user_id |-> client.user_id,
                         share_target |-> leading_0s_to_target(judged' + 1),
                         weak_block_target |->
                            leading_0s_to_target(judged' + 1 + WEAK_BLOCK_RATIO_0S)]
                 /\ client.cur_target = judged' + 1
                 /\ client.accepted_shares = (MAX_USER_SHARES_PER_30_SEC + 1) \div 2
                 /\ client.accepted_shares = 15]_vars

\* The 31st accepted share in a row raised the target and left the counter at 15.
C12_Witness ==
    /\ AcceptedAndHandled
    /\ Len(emitted) = 2
    /\ emitted[2].msg.type = "ShareDifficulty"
    /\ \E id \in DOMAIN obj :
            obj[id].accepted_shares = 15 /\ obj[id].cur_target = judged + 1

\* last_weak_block as a list: None is the empty list.
CachedTxn == IF last_weak_block = <<>> THEN <<>> ELSE last_weak_block[1]

\* The sketch passes the handler's tests up to reconstruction, and every
\* TakeTx index is in range of the cached list.
Reconstructible(txn) ==
    /\ client_version # 0
    /\ connection_clients # <<>>
    /\ Len(txn) >= 1
    /\ txn[1].a = "NewTx"
    /\ txn[1].tx.parsed # <<>>
    /\ check_coinbase_tx(txn[1].tx.parsed[1]).ok
    /\ \A i \in DOMAIN txn : txn[i].a = "TakeTx" => txn[i].n < Len(CachedTxn)

\* Each action mapped in order: NewTx{tx} to tx, TakeTx{n} to element n of the
\* cached list as it was before the message.
MappedTxn(txn) ==
    [i \in DOMAIN txn |-> IF txn[i].a = "NewTx" THEN txn[i].tx
                          ELSE CachedTxn[txn[i].n + 1]]

\* C13 as stated: for every sketch whose first action is a NewTx with a valid
\* coinbase and whose TakeTx indices are all in range, reconstruction produces
\* the actions mapped in order, also when an index is taken more than once or
\* out of ascending order.
C13_Claimed ==
    [][\A txn \in WeakSketches, z \in WeakZs :
            (WeakBlock(WeakBlockMsg(txn, z)) /\ Reconstructible(txn)) =>
                /\ Len(todo') = 2
                /\ todo'[2].op = "set_last_weak_block"
                /\ todo'[2].txn = MappedTxn(txn)]_vars

\* C14 as stated: a WeakBlock rejected before reconstruction completes (the
\* handler's first response is a ShareRejected, sent without loading the
\* target) leaves last_weak_block exactly as it was.
C14_Claimed ==
    [][\A txn \in WeakSketches, z \in WeakZs :
            (/\ WeakBlock(WeakBlockMsg(txn, z))
             /\ connState' = "open"
             /\ Head(todo').op = "send") =>
                UNCHANGED last_weak_block]_vars

\* The handler's last pending operation is the update of last_weak_block.
PendingUpdate == todo # <<>> /\ todo[Len(todo)].op = "set_last_weak_block"

\* C15: after a WeakBlock whose reconstruction completes, accepted or rejected
\* with BadHash, last_weak_block is the list the reconstruction produced, in
\* order: the update stays pending through the handler's sends and stores and
\* is made when the handler ends; for a sketch of NewTx actions alone the cache
\* is then the transactions of the sketch.
C15_CacheUpdated ==
    [][/\ \A txn \in WeakSketches, z \in WeakZs :
            (WeakBlock(WeakBlockMsg(txn, z)) /\ Reconstructible(txn)) =>
                /\ Len(todo') = 2
                /\ todo'[1].op = "load"
                /\ todo'[2] = [op |-> "set_last_weak_block",
                               txn |-> reconstruct(txn, CachedTxn, <<>>).txn]
       /\ (PendingUpdate /\ connState' = "open") =>
            \/ /\ todo' # <<>>
               /\ todo'[Len(todo')] = todo[Len(todo)]
            \/ /\ todo' = <<>>
               /\ last_weak_block' = <<todo[Len(todo)].txn>>
       /\ (/\ connState' = "open" /\ todo' = <<>> /\ judged' # 0
           /\ lastIn'.msg.type = "WeakBlock") =>
            /\ emitted' # <<>>
            /\ \/ emitted'[1].msg.type = "ShareAccepted"
               \/ /\ emitted'[1].msg.type = "ShareRejected"
                  /\ emitted'[1].msg.reason = "BadHash"
            /\ last_weak_block' # <<>>
            /\ Len(last_weak_block'[1]) = Len(lastIn'.msg.txn)
            /\ \A i \in DOMAIN lastIn'.msg.txn :
                    lastIn'.msg.txn[i].a = "NewTx" =>
                        last_weak_block'[1][i] = lastIn'.msg.txn[i].tx]_vars

\* A sketch taking two cached transactions in reverse order was rejected with
\* BadHash and is the cache now.
C15_Witness ==
    /\ Handled
    /\ lastIn.msg.type = "WeakBlock"
    /\ lastIn.msg.txn = <<NewTx(CoinbaseBytes(0)), TakeTx(2), TakeTx(1)>>
    /\ Emitted = <<[type |-> "ShareRejected", user_tag_1 |-> "rig2", reason |-> "BadHash"]>>
    /\ last_weak_block = <<<<CoinbaseBytes(0), T2, T1>>>>

\* What the handler of a Share or WeakBlock that failed has handed to the
\* channel when it ends: one ShareRejected with the message's tag and the
\* reason of the failure, and after it one WeakBlockStateReset for a sketch
\* rejected before its target was loaded.
RejectionAnswered ==
    LET msg == lastIn.msg
        rejection(reason) ==
            [type |-> "ShareRejected", user_tag_1 |-> msg.user_tag_1, reason |-> reason]
        reset == [type |-> "WeakBlockStateReset"] IN
    IF msg.type = "Share" THEN
        IF ~check_coinbase_tx(msg.coinbase_tx).ok
        THEN judged = 0 /\ Emitted = <<rejection("BadPayoutInfo")>>
        ELSE judged # 0 /\ Emitted = <<rejection("BadHash")>>
    ELSE IF msg.txn[1].a = "TakeTx"
        THEN judged = 0 /\ Emitted = <<rejection("BadWork"), reset>>
    ELSE IF msg.txn[1].tx.parsed = <<>>
        THEN judged = 0 /\ Emitted = <<rejection("BadPayoutInfo"), reset>>
    ELSE IF ~check_coinbase_tx(msg.txn[1].tx.parsed[1]).ok
        THEN judged = 0 /\ Emitted = <<rejection("BadPayoutInfo"), reset>>
    ELSE IF judged = 0
        THEN Emitted = <<rejection("BadWork"), reset>>
    ELSE Emitted = <<rejection("BadHash")>>

\* C16: a Share or WeakBlock that fails on the coinbase policy, a malformed
\* coinbase, a client id not in client_ids (also one removed by DropUser), a
\* TakeTx first or out of range, or insufficient work is answered by exactly
\* one ShareRejected with the message's tag and the matching reason, followed
\* by exactly one WeakBlockStateReset when a sketch is rejected before
\* reconstruction completes; the connection stays open and the registry,
\* cur_target and accepted_shares are unchanged.
C16_Rejections ==
    [][/\ \A cb \in Coinbases, z \in LowZs :
            (Share(ShareMsg(cb, z)) /\ connState' = "open") =>
                (Head(todo').op = "load" <=> check_coinbase_tx(cb).ok)
       /\ \A txn \in Sketches, z \in LowZs :
            (WeakBlock(WeakBlockMsg(txn, z)) /\ connState' = "open") =>
                (Head(todo').op = "load" <=> Reconstructible(txn))
       /\ (lastIn'.msg.type \in {"Share", "WeakBlock"} /\ connState' = "open") =>
            UNCHANGED <<connection_clients, client_ids, max_client_id, obj, users>>
       /\ (lastIn'.msg.type \in {"Share", "WeakBlock"} /\ connState' = "open" /\ todo' = <<>>) =>
            RejectionAnswered']_vars

\* A Share whose coinbase ends in the client id of a user removed by DropUser
\* was answered BadPayoutInfo on a connection that still has a user.
C16_Witness ==
    /\ Handled
    /\ lastIn.msg.type = "Share"
    /\ lastIn.msg.coinbase_tx = coinbase_for(0)
    /\ removed # {}
    /\ 0 \notin DOMAIN client_ids
    /\ Emitted = <<[type |-> "ShareRejected", user_tag_1 |-> "rig1",
                    reason |-> "BadPayoutInfo"]>>

\* C17 as stated: a response the connection engine hands to a full channel
\* fails and drops the connection; no response is discarded with the
\* connection going on.
C17_Claimed ==
    [][ConnSend =>
            \/ connState' = "failed"
            \/ emitted'[Len(emitted')].queued]_vars

\* C18 as stated: when the tick's send of the ShareDifficulty fails, the tick
\* abandons the update and the user's cur_target stays as it was.
C18_Claimed ==
    [][\A id \in DOMAIN obj \cap DOMAIN obj' :
            (TickStore /\ ~tickLoc.sent) => obj'[id].cur_target = obj[id].cur_target]_vars

\* What one tick does with the entry it visits: an entry whose owner (the
\* connection's registry, until the task is dropped) is gone is removed, with
\* no target changed and nothing queued; an entry whose owner is there stays;
\* no other step of the tick touches the collection.
C19_Visit ==
    /\ TickUpgrade =>
            IF users[tickIdx] \in ConnHeld
            THEN UNCHANGED users
            ELSE /\ users' = RemoveAt(users, tickIdx)
                 /\ tickPc' = "scan"
                 /\ UNCHANGED <<obj, chanVars>>
    /\ (TickStart \/ TickLoad \/ TickSend \/ TickStore \/ TickEnd) => UNCHANGED users
    /\ TickEnd => tickIdx > Len(users)

\* C19: a tick that visits an entry after its owning reference is gone (the
\* user was dropped, or the connection's task is gone) removes it and neither
\* changes cur_target nor queues a ShareDifficulty for it; entries of users
\* registered on a live connection are never removed. A tick that had already
\* upgraded the entry when the owner went away is not covered.
C19_Purge == [][C19_Visit]_vars

\* C19 as stated: in addition, from the moment the owning reference is gone no
\* tick queues a ShareDifficulty for the user or stores its cur_target.
C19_Claimed ==
    [][/\ C19_Visit
       /\ (TickSend \/ TickStore) => users[tickIdx] \in ConnHeld]_vars

C19_Witness ==
    /\ connState = "open"
    /\ tickPc = "idle"
    /\ Len(minted) = 2
    /\ removed # {}
    /\ Len(users) = 1
    /\ users[1] \in ConnHeld

\* The target C20 gives for a prior count n, a target z and a minimum minz.
C20_Expected(n, z, minz) ==
    IF n > 30 /\ z < MAX_TARGET_LEADING_0S THEN z + 1
    ELSE IF n < 1 /\ z > MIN_TARGET_LEADING_0S /\ z > minz THEN z - 1
    ELSE z

\* C20: the tick, with no step of a share handler taken during its scan, takes
\* each live user's accepted_shares and leaves 0; from the count taken and the
\* cur_target it loads it raises the target by one (count above 30, target
\* below the maximum), else lowers it by one (count below 1, target above the
\* global minimum and above min_target), else keeps it; when the target
\* changes it queues one ShareDifficulty with the new target and the new
\* target + WEAK_BLOCK_RATIO_0S and then stores the new target; when it does
\* not change, nothing is queued.
C20_Tick ==
    [][/\ (TickUpgrade /\ users[tickIdx] \in DOMAIN obj) =>
            LET id == users[tickIdx] IN
            /\ tickLoc'.shares = obj[id].accepted_shares
            /\ obj' = [obj EXCEPT ![id].accepted_shares = 0]
       /\ TickLoad =>
            LET id == users[tickIdx]
                z == obj[id].cur_target
                e == C20_Expected(tickLoc.shares, z, obj[id].min_target) IN
            /\ obj[id].accepted_shares = 0
            /\ UNCHANGED <<obj, chanVars>>
            /\ IF e = z THEN tickPc' = "scan" /\ tickIdx' = tickIdx + 1
               ELSE tickPc' = "send" /\ tickLoc'.cur = z /\ tickLoc'.new = e
       /\ TickSend =>
            LET id == users[tickIdx] IN
            /\ numMessages' = numMessages + 1
            /\ tickLoc'.sent
            /\ tickLoc'.msg =
                    [type |-> "ShareDifficulty", user_id |-> obj[id].user_id,
                     share_target |-> leading_0s_to_target(tickLoc.new),
                     weak_block_target |->
                        leading_0s_to_target(tickLoc.new + WEAK_BLOCK_RATIO_0S)]
            /\ UNCHANGED obj
       /\ TickStore =>
            LET id == users[tickIdx] IN
            /\ tickLoc.sent
            /\ obj[id].cur_target = tickLoc.cur
            /\ obj[id].accepted_shares = 0
            /\ obj' = [obj EXCEPT ![id].cur_target = tickLoc.new]
            /\ tickPc' = "scan" /\ tickIdx' = tickIdx + 1]_vars

\* The tick has taken a count above 30 and is about to store the raised target.
C20_Witness ==
    /\ tickPc = "store"
    /\ tickLoc.shares > 30
    /\ tickLoc.sent
    /\ tickLoc.new = obj[users[tickIdx]].cur_target + 1

\* C21 as stated: under every interleaving of the tick with the share path,
\* each store to a user's cur_target changes it by exactly one: the value
\* after the store is the value before it plus or minus 1.
C21_Claimed ==
    [][/\ StoreTarget =>
            LET id == Head(todo).client IN
            obj'[id].cur_target \in {obj[id].cur_target - 1, obj[id].cur_target + 1}
       /\ (TickStore /\ users[tickIdx] \in DOMAIN obj') =>
            LET id == users[tickIdx] IN
            obj'[id].cur_target \in {obj[id].cur_target - 1, obj[id].cur_target + 1}]_vars

\* C22 as stated: the tick does not hold the users mutex while it sends a
\* ShareDifficulty, so a UserAuth the connection is ready to accept (version
\* negotiated, user not registered) can take the mutex and register the user
\* while the tick is at its send.
C22_Claimed ==
    tickPc = "send" =>
        \A m \in LifeUserAuths :
            (/\ connState = "open"
             /\ todo = <<>>
             /\ client_version # 0
             /\ m.info.user_id \notin DOMAIN connection_clients
             /\ max_client_id < MaxClients)
                => ENABLED UserAuth(m, TRUE)

\* C23 as stated: once the tick and the handler are both done, the last
\* ShareDifficulty queued for a registered user carries that user's stored
\* cur_target.
C23_Claimed ==
    (tickPc = "idle" /\ todo = <<>> /\ connState = "open") =>
        \A id \in ConnHeld :
            obj[id].user_id \in DOMAIN lastSD =>
                lastSD[obj[id].user_id].share_target =
                    leading_0s_to_target(obj[id].cur_target)

\* The target C24 names for a user: max(min_z, MIN_SHARE_Z).
C24_Floor(id) == Max(obj[id].min_target, MIN_TARGET_LEADING_0S)

\* C24: a user that stays registered on a live connection and has no share or
\* weak block accepted has, under a fair tick, its cur_target eventually at
\* max(min_target, MIN_TARGET_LEADING_0S) for good (when that is at most
\* MAX_TARGET_LEADING_0S), and from then on the tick sends no ShareDifficulty
\* for it.
C24_Descent ==
    \A id \in 0 .. MaxClients - 1 :
        [](id \in DOMAIN obj =>
            <>[](/\ id \in DOMAIN obj
                 /\ C24_Floor(id) <= MAX_TARGET_LEADING_0S =>
                        /\ obj[id].cur_target = C24_Floor(id)
                        /\ ~(tickPc \in {"send", "store"} /\ users[tickIdx] = id)))

\* alice, registered at 56 leading zeros with a minimum of 53, was taken down
\* to 53 by the tick, whose last ShareDifficulty carried 53.
C24_Witness ==
    /\ tickPc = "idle"
    /\ 0 \in DOMAIN obj
    /\ obj[0].min_target = 53
    /\ obj[0].cur_target = 53
    /\ obj[0].user_id \in DOMAIN lastSD
    /\ lastSD[obj[0].user_id].share_target = leading_0s_to_target(53)
====
